---------------------------- MODULE Spec2Model ----------------------------
(***************************************************************************)
(* Model of sae_dashboard/neuronpedia/neuronpedia_runner.py:               *)
(* NeuronpediaRunner.get_feature_batches (the feature batch plan),         *)
(* NeuronpediaRunner.run (the resumable batch loop over an output          *)
(* directory that outlives the process), generate_tokens and get_tokens    *)
(* (the deduplicated corpus and its file), add_prefix_suffix_to_tokens,    *)
(* get_vocab_dict, __init__ with the head of run(), two runs side by side  *)
(* (telemetry on and off), two processes on one directory, and             *)
(* re-invocation after a failed run.                                       *)
(***************************************************************************)
EXTENDS Integers, Sequences, FiniteSets, TLC

\* ------------------------------------------------------------------ bounds
\* Largest d_sae (number of features) of the batch-loop specification.
MaxFeatures == 3
\* Largest number of run() invocations (process starts) on one directory.
MaxRuns == 3
\* Largest d_sae and n_features_at_a_time of the planner specification.
MaxPlanFeatures == 12

\* Largest n_prompts_total of the corpus builder specification.
MaxPrompts == 3
\* Largest store_batch_size_prompts (sequences per draw) of that specification.
MaxDrawBatch == 2
\* Largest token id of a drawn sequence.
MaxToken == 1

\* Largest sequence length of the augmenter specification.
MaxCtx == 3
\* Largest length of a configured prefix or suffix.
MaxFix == 2

\* Largest number of entries of a raw tokenizer table.
MaxVocab == 3
\* Largest model.cfg.d_vocab; raw token ids are below d_vocab.
MaxDVocab == 4

\* cfg.end_batch = None (argparse default, line 1135); ordinals are >= 0.
None == -1

VARIABLES
    d_sae,                 \* sae.cfg.d_sae: the number of features
    n_features_at_a_time,  \* cfg.n_features_at_a_time
    start_batch,           \* cfg.start_batch of the current process
    end_batch,             \* cfg.end_batch of the current process, or None
    pc,                    \* position of the process inside run()
    run,                   \* number of run() invocations so far
    prev,                  \* how the previous invocation ended
    feature_idx,           \* the plan: result of get_feature_batches()
    feature_batch_count,   \* the loop variable of run()
    log,                   \* what this invocation did, in order
    files,                 \* the output directory: batch-<i>.json
    files0                 \* the directory as this invocation found it

VARIABLES
    n_prompts_total,       \* cfg.n_prompts_total
    store_batch_size,      \* activations_store.store_batch_size_prompts
    shuffle_tokens,        \* cfg.shuffle_tokens
    source,                \* the sequences the token source yields, in order
    draws,                 \* calls of activations_store.get_batch_tokens()
    all_tokens_list,       \* generate_tokens: the sequences kept so far
    unique_sequences,      \* generate_tokens: the fingerprints seen so far
    tokens,                \* the corpus a call returned (<<>> before)
    tokens_file,           \* tokens_<n_prompts_total>.pt: {} or {corpus}
    prefix_tokens,         \* cfg.prefix_tokens: {} for None, {list} otherwise
    suffix_tokens,         \* cfg.suffix_tokens: {} for None, {list} otherwise
    prepend_bos,           \* sae.cfg.prepend_bos
    augmented,             \* what add_prefix_suffix_to_tokens returned
    vocab,                 \* model.tokenizer.vocab: <<token string, id>> in dict order
    d_vocab,               \* model.cfg.d_vocab
    vocab_dict             \* what get_vocab_dict returned (id -> string)

VARIABLES
    use_transcoder,        \* cfg.use_transcoder
    use_skip_transcoder,   \* cfg.use_skip_transcoder
    use_clt,               \* cfg.use_clt
    clt_layer_idx,         \* cfg.clt_layer_idx, or None
    loaded,                \* what the runner holds: "sae", "model", "activations_store"
    created,               \* the output directory and its files other than batches
    written                \* the files other than batches this process has written

VARIABLES
    procs                   \* runs side by side, each a record of its own state

\* The configuration and the source generate_tokens reads.
tokcfg == <<n_prompts_total, store_batch_size, shuffle_tokens, source>>

\* The locals of generate_tokens and its result.
tokstate == <<draws, all_tokens_list, unique_sequences, tokens>>

\* Everything the batch loop and the planner neither read nor write.
\* The configuration add_prefix_suffix_to_tokens reads.
pfxcfg == <<prefix_tokens, suffix_tokens, prepend_bos>>

\* The tokenizer table and the vocabulary table built from it.
vocvars == <<vocab, d_vocab, vocab_dict>>

\* The encoder-family flags, and what construction and the head of run() load
\* and create.
flagvars == <<use_transcoder, use_skip_transcoder, use_clt, clt_layer_idx>>
ctorvars == <<flagvars, loaded, created, written>>

auxvars == <<tokcfg, tokstate, tokens_file, pfxcfg, augmented, vocvars, ctorvars,
             procs>>

vars == <<d_sae, n_features_at_a_time, start_batch, end_batch, pc, run, prev,
          feature_idx, feature_batch_count, log, files, files0, auxvars>>

cfgvars == <<d_sae, n_features_at_a_time, auxvars>>

\* Batch ordinals a plan of at most MaxFeatures features can have.
Ordinals == 0 .. (MaxFeatures - 1)

\* ------------------------------------------------------ get_feature_batches

\* list(range(self.sae.cfg.d_sae)) as a 1-indexed sequence.
get_alive_features(n) == [i \in 1 .. n |-> i - 1]

\* np.ceil(a / b).astype(int) for positive integers.
CeilDiv(a, b) == (a + b - 1) \div b

RECURSIVE cumsum(_)
\* numpy cumsum of a sequence of section sizes.
cumsum(s) ==
    IF Len(s) = 0 THEN <<>>
    ELSE LET init == cumsum(SubSeq(s, 1, Len(s) - 1))
         IN  Append(init, (IF Len(init) = 0 THEN 0 ELSE init[Len(init)]) + s[Len(s)])

\* np.array_split with an integer section count: the first Ntotal % Nsections
\* sections get one element more than the others.
array_split_dropping(ary, Nsections) ==
    LET Neach == Len(ary) \div Nsections
    IN  [k \in 1 .. Nsections |-> SubSeq(ary, (k - 1) * Neach + 1, k * Neach)]

\* Sections of floor(Ntotal / Nsections) elements, the last one taking the
\* remainder as well.
array_split_remainder_last(ary, Nsections) ==
    LET Neach == Len(ary) \div Nsections
    IN  [k \in 1 .. Nsections |->
            SubSeq(ary, (k - 1) * Neach + 1,
                   IF k = Nsections THEN Len(ary) ELSE k * Neach)]

array_split(ary, Nsections) ==
    LET Ntotal == Len(ary)
        Neach_section == Ntotal \div Nsections
        extras == Ntotal % Nsections
        section_sizes == [k \in 1 .. (Nsections + 1) |->
                             IF k = 1 THEN 0
                             ELSE IF k - 1 <= extras THEN Neach_section + 1
                             ELSE Neach_section]
        div_points == cumsum(section_sizes)
    IN  [k \in 1 .. Nsections |-> SubSeq(ary, div_points[k] + 1, div_points[k + 1])]

\* The plan a call with chunks of exactly n_at_a_time would give.
get_feature_batches_chunked(n_features, n_at_a_time) ==
    LET ary == get_alive_features(n_features)
    IN  [k \in 1 .. CeilDiv(n_features, n_at_a_time) |->
            SubSeq(ary, (k - 1) * n_at_a_time + 1,
                   IF k * n_at_a_time < n_features THEN k * n_at_a_time ELSE n_features)]

get_feature_batches(n_features, n_at_a_time) ==
    LET feature_index == get_alive_features(n_features)
        n_subarrays == CeilDiv(Len(feature_index), n_at_a_time)
    IN  array_split(feature_index, n_subarrays)

\* --------------------------------------------------------- output directory

\* A file is <<kind, stamp>>: kind is "absent", "partial" (opened with mode
\* "w", the write not finished) or "full"; stamp counts the times the path was
\* opened for writing, so that a rewrite is a change of the file.
Absent == <<"absent", 0>>

\* Checks a path that is never written (batch-<i>.html for batch-<i>.json).
isfile_other_path(i) == FALSE

\* Takes an empty or unfinished file for no file.
isfile_nonempty(i) == files[i][1] = "full"

\* os.path.isfile(output_file): existence only, no look at the contents.
isfile(i) == files[i][1] # "absent"

BeforeStart_Inclusive(i) == i <= start_batch

\* feature_batch_count < self.cfg.start_batch
BeforeStart(i) == i < start_batch

AfterEnd_Exclusive(i) == end_batch # None /\ i >= end_batch

\* self.cfg.end_batch is not None and feature_batch_count > self.cfg.end_batch
AfterEnd(i) == end_batch # None /\ i > end_batch

\* ------------------------------------------------------------------- run()

Running == pc \in {"loop", "extracting", "converting", "writing"}

\* The corpus builder before any call, with nothing configured.
TokIdle ==
    /\ n_prompts_total = 1
    /\ store_batch_size = 1
    /\ shuffle_tokens = FALSE
    /\ source = <<>>
    /\ draws = 0
    /\ all_tokens_list = <<>>
    /\ unique_sequences = {}
    /\ tokens = <<>>
    /\ tokens_file = {}

\* The augmenter before any call, with neither prefix nor suffix configured.
PfxIdle ==
    /\ prefix_tokens = {}
    /\ suffix_tokens = {}
    /\ prepend_bos = FALSE
    /\ augmented = <<>>

\* No tokenizer table read yet.
VocIdle ==
    /\ vocab = <<>>
    /\ d_vocab = 0
    /\ vocab_dict = <<>>

\* No family flag set, nothing loaded, created or written.
CtorIdle ==
    /\ use_transcoder = FALSE
    /\ use_skip_transcoder = FALSE
    /\ use_clt = FALSE
    /\ clt_layer_idx = None
    /\ loaded = {}
    /\ created = {}
    /\ written = {}

\* No runs side by side.
ProcsIdle == procs = <<>>

AuxIdle == TokIdle /\ PfxIdle /\ VocIdle /\ CtorIdle /\ ProcsIdle

\* How an invocation ended: its last position, the batch it failed at (0
\* otherwise), and whether the next invocation has its start/end bounds.
NoPrev == [status |-> "none", at |-> 0, same_bounds |-> FALSE]

Init ==
    /\ d_sae \in 1 .. MaxFeatures
    /\ n_features_at_a_time \in 1 .. MaxFeatures
    /\ start_batch = 0
    /\ end_batch = None
    /\ pc = "idle"
    /\ run = 0
    /\ prev = NoPrev
    /\ feature_idx = <<>>
    /\ feature_batch_count = 0
    /\ log = <<>>
    /\ files = [i \in Ordinals |-> Absent]
    /\ files0 = [i \in Ordinals |-> Absent]
    /\ AuxIdle

\* A process is started on the directory: run() up to the head of the loop.
RunStart ==
    /\ ~Running
    /\ run < MaxRuns
    /\ run' = run + 1
    /\ start_batch' \in 0 .. MaxFeatures
    /\ end_batch' \in {None} \cup Ordinals
    /\ prev' = [status |-> pc,
                at |-> IF pc = "failed" THEN feature_batch_count ELSE 0,
                same_bounds |-> run > 0 /\ start_batch' = start_batch
                                        /\ end_batch' = end_batch]
    /\ feature_idx' = get_feature_batches(d_sae, n_features_at_a_time)
    /\ pc' = IF start_batch' >= Len(feature_idx') THEN "exited" ELSE "loop"
    /\ feature_batch_count' = 0
    /\ log' = <<>>
    /\ files0' = files
    /\ UNCHANGED <<cfgvars, files>>

AtBatch == pc = "loop" /\ feature_batch_count < Len(feature_idx)

SkipBeforeStart ==
    /\ AtBatch
    /\ BeforeStart(feature_batch_count)
    /\ feature_batch_count' = feature_batch_count + 1
    /\ UNCHANGED <<cfgvars, start_batch, end_batch, pc, run, prev, feature_idx,
                   log, files, files0>>

SkipAfterEnd ==
    /\ AtBatch
    /\ ~BeforeStart(feature_batch_count)
    /\ AfterEnd(feature_batch_count)
    /\ feature_batch_count' = feature_batch_count + 1
    /\ UNCHANGED <<cfgvars, start_batch, end_batch, pc, run, prev, feature_idx,
                   log, files, files0>>

\* Neither of the two range tests of the loop head took its `continue`.
PastRangeTests ==
    /\ AtBatch
    /\ ~BeforeStart(feature_batch_count)
    /\ ~AfterEnd(feature_batch_count)

\* `break` where the code has `continue`.
SkipExisting_Break ==
    /\ PastRangeTests
    /\ isfile(feature_batch_count)
    /\ log' = Append(log, <<"skip", feature_batch_count>>)
    /\ pc' = "done"
    /\ UNCHANGED <<cfgvars, start_batch, end_batch, run, prev, feature_idx,
                   feature_batch_count, files, files0>>

\* The artifact exists: print the skip line and `continue`.
SkipExisting ==
    /\ PastRangeTests
    /\ isfile(feature_batch_count)
    /\ log' = Append(log, <<"skip", feature_batch_count>>)
    /\ feature_batch_count' = feature_batch_count + 1
    /\ UNCHANGED <<cfgvars, start_batch, end_batch, pc, run, prev, feature_idx,
                   files, files0>>

\* The batch is run without the existence test.
StartBatch_NoCheck ==
    /\ PastRangeTests
    /\ log' = Append(log, <<"extract", feature_batch_count>>)
    /\ pc' = "extracting"
    /\ UNCHANGED <<cfgvars, start_batch, end_batch, run, prev, feature_idx,
                   feature_batch_count, files, files0>>

\* The output file is opened before the extraction instead of after it.
StartBatch_OpenFirst ==
    /\ PastRangeTests
    /\ ~isfile(feature_batch_count)
    /\ files' = [files EXCEPT ![feature_batch_count] = <<"partial", @[2] + 1>>]
    /\ log' = Append(log, <<"extract", feature_batch_count>>)
    /\ pc' = "extracting"
    /\ UNCHANGED <<cfgvars, start_batch, end_batch, run, prev, feature_idx,
                   feature_batch_count, files0>>

\* SaeVisRunner(...).run(...) is called for the batch.
StartBatch ==
    /\ PastRangeTests
    /\ ~isfile(feature_batch_count)
    /\ log' = Append(log, <<"extract", feature_batch_count>>)
    /\ pc' = "extracting"
    /\ UNCHANGED <<cfgvars, start_batch, end_batch, run, prev, feature_idx,
                   feature_batch_count, files, files0>>

ExtractReturn ==
    /\ pc = "extracting"
    /\ pc' = "converting"
    /\ UNCHANGED <<cfgvars, start_batch, end_batch, run, prev, feature_idx,
                   feature_batch_count, log, files, files0>>

ExtractRaise ==
    /\ pc = "extracting"
    /\ pc' = "failed"
    /\ UNCHANGED <<cfgvars, start_batch, end_batch, run, prev, feature_idx,
                   feature_batch_count, log, files, files0>>

\* open(output_file, "w"): the file exists from here on, still without its
\* contents.
Opened(f) == <<"partial", f[2] + 1>>

\* The write is left pending and the loop goes on to the next batch.
ConvertReturn_NoWait ==
    /\ pc = "converting"
    /\ files' = [files EXCEPT ![feature_batch_count] = Opened(@)]
    /\ log' = Append(log, <<"open", feature_batch_count>>)
    /\ feature_batch_count' = feature_batch_count + 1
    /\ pc' = "loop"
    /\ UNCHANGED <<cfgvars, start_batch, end_batch, run, prev, feature_idx, files0>>

\* NeuronpediaConverter.convert_to_np_json returns, then open(output_file, "w").
ConvertReturn ==
    /\ pc = "converting"
    /\ files' = [files EXCEPT ![feature_batch_count] = Opened(@)]
    /\ log' = Append(log, <<"open", feature_batch_count>>)
    /\ pc' = "writing"
    /\ UNCHANGED <<cfgvars, start_batch, end_batch, run, prev, feature_idx,
                   feature_batch_count, files0>>

ConvertRaise ==
    /\ pc = "converting"
    /\ pc' = "failed"
    /\ UNCHANGED <<cfgvars, start_batch, end_batch, run, prev, feature_idx,
                   feature_batch_count, log, files, files0>>

\* f.write(json_object) and the close of the with block, then the end of the
\* loop body.
WriteArtifact ==
    /\ pc = "writing"
    /\ files' = [files EXCEPT ![feature_batch_count] = <<"full", @[2]>>]
    /\ log' = Append(log, <<"write", feature_batch_count>>)
    /\ feature_batch_count' = feature_batch_count + 1
    /\ pc' = "loop"
    /\ UNCHANGED <<cfgvars, start_batch, end_batch, run, prev, feature_idx, files0>>

\* The for loop is exhausted and run() returns.
Finish ==
    /\ pc = "loop"
    /\ feature_batch_count = Len(feature_idx)
    /\ pc' = "done"
    /\ UNCHANGED <<cfgvars, start_batch, end_batch, run, prev, feature_idx,
                   feature_batch_count, log, files, files0>>

\* The process is terminated from outside during one of its blocking calls
\* (extraction, serialization, the write of the artifact).
Kill ==
    /\ pc \in {"extracting", "converting", "writing"}
    /\ pc' = "killed"
    /\ UNCHANGED <<cfgvars, start_batch, end_batch, run, prev, feature_idx,
                   feature_batch_count, log, files, files0>>

Next ==
    \/ RunStart
    \/ SkipBeforeStart
    \/ SkipAfterEnd
    \/ SkipExisting
    \/ StartBatch
    \/ ExtractReturn
    \/ ExtractRaise
    \/ ConvertReturn
    \/ ConvertRaise
    \/ WriteArtifact
    \/ Finish
    \/ Kill

Spec == Init /\ [][Next]_vars

\* ------------------------------------------------- the planner on its own

\* get_feature_batches over a wider range of inputs than the batch loop needs.
PlanInit ==
    /\ d_sae \in 1 .. MaxPlanFeatures
    /\ n_features_at_a_time \in 1 .. MaxPlanFeatures
    /\ start_batch = 0
    /\ end_batch = None
    /\ pc = "idle"
    /\ run = 0
    /\ prev = NoPrev
    /\ feature_idx = <<>>
    /\ feature_batch_count = 0
    /\ log = <<>>
    /\ files = [i \in Ordinals |-> Absent]
    /\ files0 = [i \in Ordinals |-> Absent]
    /\ AuxIdle

\* feature_idx = self.get_feature_batches()
PlanBatches ==
    /\ pc = "idle"
    /\ feature_idx' = get_feature_batches(d_sae, n_features_at_a_time)
    /\ pc' = "planned"
    /\ UNCHANGED <<cfgvars, start_batch, end_batch, run, prev,
                   feature_batch_count, log, files, files0>>

PlanNext == PlanBatches

SpecPlan == PlanInit /\ [][PlanNext]_vars

\* --------------------------------------------------------- generate_tokens

\* Token sequences a draw can hold: context length 2 over 0 .. MaxToken.
SeqValues == [1 .. 2 -> 0 .. MaxToken]

\* The scenario source: 12 sequences, the 5th equal to the 1st and the 9th to
\* the 2nd, all others distinct.
ScenarioSource ==
    [k \in 1 .. 12 |-> IF k = 5 THEN <<1, 1>> ELSE IF k = 9 THEN <<2, 2>> ELSE <<k, k>>]

\* torch.randperm(n): every permutation of 1 .. n.
randperm(n) == {p \in [1 .. n -> 1 .. n] : \A i, j \in 1 .. n : p[i] = p[j] => i = j}

\* A shuffle whatever shuffle_tokens says.
ShufflePerms_Always(n) == randperm(n)

\* The permutations a shuffle may apply: any when shuffle_tokens is set, none
\* (the identity) otherwise.
ShufflePerms(n) == IF shuffle_tokens THEN randperm(n) ELSE {[i \in 1 .. n |-> i]}

\* tuple(tensor.cpu().numpy().flatten().tolist()): the value at every position.
hash_tensor(seq) == [i \in 1 .. Len(seq) |-> seq[i]]

IsNew_Always(h, seen) == TRUE

\* seq_hash not in unique_sequences
IsNew(h, seen) == h \notin seen

RECURSIVE KeepUnique(_, _, _)
\* The inner for loop over one batch: <<all_tokens_list, unique_sequences>>
\* after the sequences of the batch were looked at in order.
KeepUnique(batch, kept, seen) ==
    IF Len(batch) = 0 THEN <<kept, seen>>
    ELSE LET seq == batch[1]
             seq_hash == hash_tensor(seq)
             rest == SubSeq(batch, 2, Len(batch))
         IN  IF IsNew(seq_hash, seen)
             THEN KeepUnique(rest, Append(kept, seq), seen \cup {seq_hash})
             ELSE KeepUnique(rest, kept, seen)

\* len(range(n_prompts // store_batch_size_prompts)): the iterations of the loop.
MaxDraws == n_prompts_total \div store_batch_size

\* One iteration of the for loop: a draw, the optional shuffle of the batch,
\* the dedup, and the early exit once n_prompts sequences are kept.
DrawBatch ==
    /\ pc = "drawing"
    /\ draws < MaxDraws
    /\ \E perm \in ShufflePerms(store_batch_size) :
          LET batch_tokens == SubSeq(source, draws * store_batch_size + 1,
                                     (draws + 1) * store_batch_size)
              shuffled == [i \in 1 .. store_batch_size |-> batch_tokens[perm[i]]]
              after == KeepUnique(shuffled, all_tokens_list, unique_sequences)
          IN  /\ all_tokens_list' = after[1]
              /\ unique_sequences' = after[2]
    /\ draws' = draws + 1
    /\ pc' = IF Len(all_tokens_list') >= n_prompts_total THEN "cat" ELSE "drawing"
    /\ UNCHANGED <<d_sae, n_features_at_a_time, start_batch, end_batch, run, prev,
                   feature_idx, feature_batch_count, log, files, files0,
                   tokcfg, tokens, tokens_file, pfxcfg, augmented, vocvars, ctorvars,
                   procs>>

\* The range of the for loop is used up.
DrawsExhausted ==
    /\ pc = "drawing"
    /\ draws = MaxDraws
    /\ pc' = "cat"
    /\ UNCHANGED <<d_sae, n_features_at_a_time, start_batch, end_batch, run, prev,
                   feature_idx, feature_batch_count, log, files, files0, auxvars>>

\* torch.cat(all_tokens_list)[:n_prompts], which raises on an empty list, then
\* the optional shuffle of the result, and the return.
CatTokens ==
    /\ pc = "cat"
    /\ IF Len(all_tokens_list) = 0
       THEN /\ pc' = "gen_error"
            /\ UNCHANGED tokens
       ELSE LET n == IF Len(all_tokens_list) < n_prompts_total
                     THEN Len(all_tokens_list) ELSE n_prompts_total
                all_tokens == SubSeq(all_tokens_list, 1, n)
            IN  /\ \E perm \in ShufflePerms(n) :
                      tokens' = [i \in 1 .. n |-> all_tokens[perm[i]]]
                /\ pc' = "generated"
    /\ UNCHANGED <<d_sae, n_features_at_a_time, start_batch, end_batch, run, prev,
                   feature_idx, feature_batch_count, log, files, files0,
                   tokcfg, draws, all_tokens_list, unique_sequences, tokens_file,
                   pfxcfg, augmented, vocvars, ctorvars, procs>>

\* generate_tokens on its own: every small configuration and source, and the
\* scenario of 8 prompts drawn 4 at a time from ScenarioSource.
TokInit ==
    /\ d_sae = 1
    /\ n_features_at_a_time = 1
    /\ start_batch = 0
    /\ end_batch = None
    /\ pc = "drawing"
    /\ run = 0
    /\ prev = NoPrev
    /\ feature_idx = <<>>
    /\ feature_batch_count = 0
    /\ log = <<>>
    /\ files = [i \in Ordinals |-> Absent]
    /\ files0 = [i \in Ordinals |-> Absent]
    /\ \/ /\ n_prompts_total \in 1 .. MaxPrompts
          /\ store_batch_size \in 1 .. MaxDrawBatch
          /\ shuffle_tokens \in BOOLEAN
          /\ source \in [1 .. (MaxDraws * store_batch_size) -> SeqValues]
       \/ /\ n_prompts_total = 8
          /\ store_batch_size = 4
          /\ shuffle_tokens = FALSE
          /\ source = ScenarioSource
    /\ draws = 0
    /\ all_tokens_list = <<>>
    /\ unique_sequences = {}
    /\ tokens = <<>>
    /\ tokens_file = {}
    /\ PfxIdle
    /\ VocIdle
    /\ CtorIdle
    /\ ProcsIdle

TokNext ==
    \/ DrawBatch
    \/ DrawsExhausted
    \/ CatTokens

SpecTokens == TokInit /\ [][TokNext]_vars

\* ---------------------------------------------- add_prefix_suffix_to_tokens

\* An Optional[List[int]] of the configuration: {} is None, {l} is the list l.
IsNone(o) == o = {}

ListOf(o) == CHOOSE l \in o : TRUE

\* Python truth of the option: neither None nor the empty list.
Truthy(o) == ~IsNone(o) /\ Len(ListOf(o)) > 0

\* len(x) if x else 0
LenOrZero(o) == IF Truthy(o) THEN Len(ListOf(o)) ELSE 0

\* tokens.shape[1]
original_length(toks) == Len(toks[1])

\* keep_length = original_length - prefix_length - suffix_length
keep_length(toks) ==
    original_length(toks) - LenOrZero(prefix_tokens) - LenOrZero(suffix_tokens)

TooLong_Strict(keep) == keep < 0

\* if keep_length <= 0: raise ValueError
TooLong(keep) == keep <= 0

\* row[:k] for k >= 0
Leading(row, k) == SubSeq(row, 1, k)

\* The call on a corpus: how it ends and, when it returns, the corpus returned.
add_prefix_suffix_to_tokens(toks) ==
    LET keep == keep_length(toks)
        bos == IF prepend_bos THEN 1 ELSE 0
        trimmed == [r \in 1 .. Len(toks) |-> Leading(toks[r], keep - bos)]
        prefixed ==
            IF Truthy(prefix_tokens)
            THEN [r \in 1 .. Len(toks) |->
                     (IF prepend_bos THEN <<toks[r][1]>> ELSE <<>>)
                         \o ListOf(prefix_tokens) \o trimmed[r]]
            ELSE trimmed
        suffixed ==
            IF Truthy(suffix_tokens)
            THEN [r \in 1 .. Len(toks) |-> prefixed[r] \o ListOf(suffix_tokens)]
            ELSE prefixed
    IN  IF IsNone(prefix_tokens) /\ IsNone(suffix_tokens)
        THEN [status |-> "ok", tokens |-> toks]
        ELSE IF TooLong(keep)
        THEN [status |-> "ValueError", tokens |-> <<>>]
        ELSE IF Len(suffixed[1]) # original_length(toks)
        THEN [status |-> "AssertionError", tokens |-> <<>>]
        ELSE [status |-> "ok", tokens |-> suffixed]

\* Where a call of add_prefix_suffix_to_tokens leaves the caller.
AfterAugment(result) ==
    CASE result.status = "ok" -> "augmented"
      [] result.status = "ValueError" -> "config_error"
      [] result.status = "AssertionError" -> "assert_error"

\* tokens = self.add_prefix_suffix_to_tokens(tokens), on its own.
AddPrefixSuffix ==
    /\ pc = "augment"
    /\ LET result == add_prefix_suffix_to_tokens(tokens)
       IN  /\ augmented' = result.tokens
           /\ pc' = AfterAugment(result)
    /\ UNCHANGED <<d_sae, n_features_at_a_time, start_batch, end_batch, run, prev,
                   feature_idx, feature_batch_count, log, files, files0,
                   tokcfg, tokstate, tokens_file, pfxcfg, vocvars, ctorvars, procs>>

\* The prefixes and suffixes a configuration can hold: None, the empty list
\* and lists of up to MaxFix copies of a token id.
FixOptions(tok) ==
    {{}} \cup {{[i \in 1 .. n |-> tok]} : n \in 0 .. MaxFix}

\* The corpora the augmenter is given: one or two distinct rows of one length.
Corpora ==
    UNION {{c \in UNION {[1 .. n -> [1 .. len -> 0 .. MaxToken]] : n \in 1 .. 2} :
               \A i, j \in 1 .. Len(c) : c[i] = c[j] => i = j} : len \in 1 .. MaxCtx}

\* add_prefix_suffix_to_tokens on its own: every small corpus and
\* configuration, and the scenario of one prefix token on a length 16 sequence.
PfxInit ==
    /\ d_sae = 1
    /\ n_features_at_a_time = 1
    /\ start_batch = 0
    /\ end_batch = None
    /\ pc = "augment"
    /\ run = 0
    /\ prev = NoPrev
    /\ feature_idx = <<>>
    /\ feature_batch_count = 0
    /\ log = <<>>
    /\ files = [i \in Ordinals |-> Absent]
    /\ files0 = [i \in Ordinals |-> Absent]
    /\ n_prompts_total = 1
    /\ store_batch_size = 1
    /\ shuffle_tokens = FALSE
    /\ source = <<>>
    /\ draws = 0
    /\ all_tokens_list = <<>>
    /\ unique_sequences = {}
    /\ tokens_file = {}
    /\ augmented = <<>>
    /\ \/ /\ tokens \in Corpora
          /\ prefix_tokens \in FixOptions(101)
          /\ suffix_tokens \in FixOptions(102)
          /\ prepend_bos \in BOOLEAN
       \/ /\ tokens = <<[i \in 1 .. 16 |-> i]>>
          /\ prefix_tokens = {<<101>>}
          /\ suffix_tokens = {<<>>}
          /\ prepend_bos = FALSE
    /\ VocIdle
    /\ CtorIdle
    /\ ProcsIdle

PfxNext == AddPrefixSuffix

SpecPrefix == PfxInit /\ [][PfxNext]_vars

\* ------------------------------------------------------------ get_vocab_dict

\* A token string is a sequence of characters, each written by its name.
\* HTML_ANOMALIES in its dict order: <<anomaly, replacement>>.
HTML_ANOMALIES == <<
    << <<"a_circumflex", "G_cedilla", "K_cedilla">>, <<"em_dash">> >>,
    << <<"a_circumflex", "G_cedilla", "j_circumflex">>, <<"en_dash">> >>,
    << <<"a_circumflex", "G_cedilla", "l_caron">>, <<"quote">> >>,
    << <<"a_circumflex", "G_cedilla", "L_middot">>, <<"quote">> >>,
    << <<"a_circumflex", "G_cedilla", "l_acute">>, <<"apostrophe">> >>,
    << <<"a_circumflex", "G_cedilla", "L_cedilla">>, <<"apostrophe">> >>,
    << <<"a_circumflex", "G_cedilla", "i_breve">>, <<"space">> >>,
    << <<"G_dot">>, <<"space">> >>,
    << <<"C_dot">>, <<"newline">> >>,
    << <<"c_circumflex">>, <<"tab">> >> >>

\* OUT_OF_RANGE_TOKEN = "<|outofrange|>"
OUT_OF_RANGE_TOKEN == <<"<|outofrange|>">>

RECURSIVE str_replace(_, _, _)
\* str.replace(old, new): every non-overlapping occurrence, left to right.
str_replace(str, old, new) ==
    IF Len(str) < Len(old) THEN str
    ELSE IF SubSeq(str, 1, Len(old)) = old
    THEN new \o str_replace(SubSeq(str, Len(old) + 1, Len(str)), old, new)
    ELSE <<str[1]>> \o str_replace(SubSeq(str, 2, Len(str)), old, new)

RECURSIVE ReplaceAnomalies(_, _)
\* for anomaly in HTML_ANOMALIES: modified_key = modified_key.replace(...)
\* from the n-th entry of the table on.
ReplaceAnomalies(modified_key, n) ==
    IF n > Len(HTML_ANOMALIES) THEN modified_key
    ELSE ReplaceAnomalies(
             str_replace(modified_key, HTML_ANOMALIES[n][1], HTML_ANOMALIES[n][2]),
             n + 1)

RECURSIVE InvertVocab(_, _)
\* The first loop: new_vocab_dict[v] = modified_key for every item, a later
\* item with the same id replacing an earlier one.
InvertVocab(items, new_vocab_dict) ==
    IF Len(items) = 0 THEN new_vocab_dict
    ELSE LET k == items[1][1]
             v == items[1][2]
             modified_key == ReplaceAnomalies(k, 1)
             rest == SubSeq(items, 2, Len(items))
         IN  InvertVocab(rest,
                 [i \in DOMAIN new_vocab_dict \cup {v} |->
                     IF i = v THEN modified_key ELSE new_vocab_dict[i]])

\* range(len(vocab_dict), self.model.cfg.d_vocab)
PadRange(inverted, size) == Cardinality(DOMAIN inverted) .. (size - 1)

get_vocab_dict(raw, size) ==
    LET inverted == InvertVocab(raw, <<>>)
        pad == PadRange(inverted, size)
    IN  [i \in DOMAIN inverted \cup pad |->
            IF i \in pad THEN OUT_OF_RANGE_TOKEN ELSE inverted[i]]

\* self.vocab_dict = self.get_vocab_dict()
GetVocabDict ==
    /\ pc = "vocab"
    /\ vocab_dict' = get_vocab_dict(vocab, d_vocab)
    /\ pc' = "vocab_done"
    /\ UNCHANGED <<d_sae, n_features_at_a_time, start_batch, end_batch, run, prev,
                   feature_idx, feature_batch_count, log, files, files0,
                   tokcfg, tokstate, tokens_file, pfxcfg, augmented, vocab, d_vocab,
                   ctorvars, procs>>

\* Token strings of a raw table: plain, with a one-character anomaly, a
\* three-character anomaly, and already normalized.
TokenStrings ==
    { <<"a">>, <<"G_dot", "a">>, <<"a_circumflex", "G_cedilla", "K_cedilla">>,
      <<"space", "a">> }

\* Raw tables for a vocabulary of the given size: up to MaxVocab items with
\* distinct token strings and ids below size.
RawVocabs(size) ==
    {raw \in UNION {[1 .. n -> TokenStrings \X (0 .. (size - 1))] : n \in 0 .. MaxVocab} :
        \A i, j \in 1 .. Len(raw) : raw[i][1] = raw[j][1] => i = j}

\* get_vocab_dict on its own.
VocInit ==
    /\ d_sae = 1
    /\ n_features_at_a_time = 1
    /\ start_batch = 0
    /\ end_batch = None
    /\ pc = "vocab"
    /\ run = 0
    /\ prev = NoPrev
    /\ feature_idx = <<>>
    /\ feature_batch_count = 0
    /\ log = <<>>
    /\ files = [i \in Ordinals |-> Absent]
    /\ files0 = [i \in Ordinals |-> Absent]
    /\ TokIdle
    /\ PfxIdle
    /\ d_vocab \in 1 .. MaxDVocab
    /\ vocab \in RawVocabs(d_vocab)
    /\ vocab_dict = <<>>
    /\ CtorIdle
    /\ ProcsIdle

VocNext == GetVocabDict

SpecVocab == VocInit /\ [][VocNext]_vars

\* ------------------------------------- __init__ and run() up to the loop

\* The batch plan inputs, and the state of the batch loop besides pc.
plancfg == <<d_sae, n_features_at_a_time>>
loopvars == <<start_batch, end_batch, run, prev, feature_idx, feature_batch_count,
              log, files, files0>>

\* int(flag), as sum() adds booleans.
BoolInt(b) == IF b THEN 1 ELSE 0

TooManyFlags_All(t, s, c) == BoolInt(t) + BoolInt(s) + BoolInt(c) > 2

\* sum(flags) > 1
TooManyFlags(t, s, c) == BoolInt(t) + BoolInt(s) + BoolInt(c) > 1

\* self.cfg.use_clt and self.cfg.clt_layer_idx is None
CltWithoutLayer == use_clt /\ clt_layer_idx = None

\* The validation block at the top of __init__: either ValueError, or on to
\* the loading of the encoder.
ValidateFlags ==
    /\ pc = "construct"
    /\ pc' = IF TooManyFlags(use_transcoder, use_skip_transcoder, use_clt)
             THEN "flag_error"
             ELSE IF CltWithoutLayer THEN "flag_error" ELSE "load_encoder"
    /\ UNCHANGED <<plancfg, loopvars, auxvars>>

\* The encoder (SAE, transcoder, skip transcoder or CLT wrapper) is loaded and
\* the model id is determined.
LoadEncoder ==
    /\ pc = "load_encoder"
    /\ loaded' = loaded \cup {"sae"}
    /\ pc' = "load_model"
    /\ UNCHANGED <<plancfg, loopvars, tokcfg, tokstate, tokens_file, pfxcfg,
                   augmented, vocvars, flagvars, created, written, procs>>

\* Loading the encoder raises (ImportError, ValueError), or no model id can
\* be determined.
LoadEncoderRaise ==
    /\ pc = "load_encoder"
    /\ pc' = "ctor_error"
    /\ UNCHANGED <<plancfg, loopvars, auxvars>>

\* HookedTransformer.from_pretrained(...)
LoadModel ==
    /\ pc = "load_model"
    /\ loaded' = loaded \cup {"model"}
    /\ pc' = "make_store"
    /\ UNCHANGED <<plancfg, loopvars, tokcfg, tokstate, tokens_file, pfxcfg,
                   augmented, vocvars, flagvars, created, written, procs>>

\* ActivationsStore.from_sae(...)
MakeStore ==
    /\ pc = "make_store"
    /\ loaded' = loaded \cup {"activations_store"}
    /\ pc' = "make_dirs"
    /\ UNCHANGED <<plancfg, loopvars, tokcfg, tokstate, tokens_file, pfxcfg,
                   augmented, vocvars, flagvars, created, written, procs>>

\* os.makedirs(cfg.outputs_dir) if missing, then create_output_directory().
CreateOutputDirectory ==
    /\ pc = "make_dirs"
    /\ created' = created \cup {"outputs_dir"}
    /\ pc' = "vocab"
    /\ UNCHANGED <<plancfg, loopvars, tokcfg, tokstate, tokens_file, pfxcfg,
                   augmented, vocvars, flagvars, loaded, written, procs>>

\* The head of run() without its write.
WriteRunSettings_Skip ==
    /\ pc = "vocab_done"
    /\ pc' = "plan"
    /\ UNCHANGED <<plancfg, loopvars, auxvars>>

\* run() is entered: json.dump(run_settings) into run_settings.json.
WriteRunSettings ==
    /\ pc = "vocab_done"
    /\ created' = created \cup {"run_settings.json"}
    /\ written' = written \cup {"run_settings.json"}
    /\ pc' = "plan"
    /\ UNCHANGED <<plancfg, loopvars, tokcfg, tokstate, tokens_file, pfxcfg,
                   augmented, vocvars, flagvars, loaded, procs>>

\* feature_idx = self.get_feature_batches(), and exit() when start_batch is
\* not below the number of batches.
PlanRun ==
    /\ pc = "plan"
    /\ feature_idx' = get_feature_batches(d_sae, n_features_at_a_time)
    /\ pc' = IF start_batch >= Len(feature_idx') THEN "exited" ELSE "record_skipped"
    /\ UNCHANGED <<plancfg, start_batch, end_batch, run, prev, feature_batch_count,
                   log, files, files0, auxvars>>

\* self.record_skipped_features(): skipped_indexes.json is written.
RecordSkippedFeatures ==
    /\ pc = "record_skipped"
    /\ created' = created \cup {"skipped_indexes.json"}
    /\ written' = written \cup {"skipped_indexes.json"}
    /\ pc' = "get_tokens"
    /\ UNCHANGED <<plancfg, loopvars, tokcfg, tokstate, tokens_file, pfxcfg,
                   augmented, vocvars, flagvars, loaded, procs>>

TokensFileExists_Never == FALSE

\* os.path.isfile(tokens_file)
TokensFileExists == tokens_file # {}

\* get_tokens, the file exists: tokens = torch.load(tokens_file).
LoadTokens ==
    /\ pc = "get_tokens"
    /\ TokensFileExists
    /\ tokens' = ListOf(tokens_file)
    /\ pc' = "check_dup"
    /\ UNCHANGED <<plancfg, loopvars, tokcfg, draws, all_tokens_list,
                   unique_sequences, tokens_file, pfxcfg, augmented, vocvars,
                   ctorvars, procs>>

\* get_tokens, no file: generate_tokens is called.
GenerateTokens ==
    /\ pc = "get_tokens"
    /\ ~TokensFileExists
    /\ pc' = "drawing"
    /\ UNCHANGED <<plancfg, loopvars, auxvars>>

\* generate_tokens has returned: torch.save(tokens, tokens_file).
SaveTokens ==
    /\ pc = "generated"
    /\ tokens_file' = {tokens}
    /\ written' = written \cup {"tokens.pt"}
    /\ pc' = "check_dup"
    /\ UNCHANGED <<plancfg, loopvars, tokcfg, tokstate, pfxcfg, augmented, vocvars,
                   flagvars, loaded, created, procs>>

\* Whether two rows of the corpus are the same sequence.
has_duplicate_rows(corpus) ==
    \E i, j \in 1 .. Len(corpus) : i # j /\ corpus[i] = corpus[j]

\* get_tokens returns whatever it has, without the assertion.
CheckDuplicateRows_Skip ==
    /\ pc = "check_dup"
    /\ pc' = "augment"
    /\ UNCHANGED <<plancfg, loopvars, auxvars>>

\* assert not has_duplicate_rows(tokens), then the return of get_tokens.
CheckDuplicateRows ==
    /\ pc = "check_dup"
    /\ pc' = IF has_duplicate_rows(tokens) THEN "dup_error" ELSE "augment"
    /\ UNCHANGED <<plancfg, loopvars, auxvars>>

\* del self.activations_store, and the batch loop is entered.
EnterLoop ==
    /\ pc = "augmented"
    /\ loaded' = loaded \ {"activations_store"}
    /\ pc' = "loop"
    /\ UNCHANGED <<plancfg, loopvars, tokcfg, tokstate, tokens_file, pfxcfg,
                   augmented, vocvars, flagvars, created, written, procs>>

\* The token sources of the whole-process specification: two sequences, distinct
\* or the same one twice.
RunSources ==
    { << <<0, 0>>, <<0, 1>> >>, << <<0, 0>>, <<0, 0>> >> }

\* The corpora an earlier process may have left in tokens_<n>.pt: one row,
\* two distinct rows, the same row twice.
RunCorpora ==
    { << <<0, 0>> >>, << <<0, 0>>, <<0, 1>> >>, << <<0, 0>>, <<0, 0>> >> }

\* What an earlier process on the directory left besides batches and corpus.
LeftBehind == {"outputs_dir", "run_settings.json", "skipped_indexes.json"}

\* One process from the call of the constructor to the end of run(): every
\* setting of the family flags on a fresh directory, and, with no flag set,
\* every small plan, corpus and prefix/suffix configuration on a fresh or a
\* used directory.
RunInit ==
    /\ pc = "construct"
    /\ run = 0
    /\ prev = NoPrev
    /\ feature_idx = <<>>
    /\ feature_batch_count = 0
    /\ log = <<>>
    /\ n_features_at_a_time = 1
    /\ shuffle_tokens = FALSE
    /\ draws = 0
    /\ all_tokens_list = <<>>
    /\ unique_sequences = {}
    /\ tokens = <<>>
    /\ augmented = <<>>
    /\ VocIdle
    /\ loaded = {}
    /\ written = {}
    /\ \/ /\ use_transcoder \in BOOLEAN
          /\ use_skip_transcoder \in BOOLEAN
          /\ use_clt \in BOOLEAN
          /\ clt_layer_idx \in {None, 0}
          /\ d_sae = 1
          /\ start_batch = 0
          /\ end_batch = None
          /\ files = [i \in Ordinals |-> Absent]
          /\ n_prompts_total = 2
          /\ store_batch_size = 2
          /\ source = << <<0, 0>>, <<0, 1>> >>
          /\ tokens_file = {}
          /\ prefix_tokens = {}
          /\ suffix_tokens = {}
          /\ prepend_bos = FALSE
       \/ /\ use_transcoder = FALSE
          /\ use_skip_transcoder = FALSE
          /\ use_clt = FALSE
          /\ clt_layer_idx = None
          /\ d_sae \in 1 .. 2
          /\ start_batch \in 0 .. 1
          /\ end_batch \in {None, 0}
          /\ files \in {[i \in Ordinals |-> Absent],
                        [i \in Ordinals |-> IF i = 0 THEN <<"full", 1>> ELSE Absent]}
          /\ n_prompts_total \in 1 .. 2
          /\ store_batch_size \in 1 .. 2
          /\ source \in RunSources
          /\ tokens_file \in {{}} \cup {{c} : c \in RunCorpora}
          /\ prefix_tokens \in FixOptions(101)
          /\ suffix_tokens \in FixOptions(102)
          /\ prepend_bos \in BOOLEAN
    /\ files0 = files
    /\ created = IF tokens_file # {} \/ files[0] # Absent THEN LeftBehind ELSE {}
    /\ ProcsIdle

RunNext ==
    \/ ValidateFlags
    \/ LoadEncoder
    \/ LoadEncoderRaise
    \/ LoadModel
    \/ MakeStore
    \/ CreateOutputDirectory
    \/ GetVocabDict
    \/ WriteRunSettings
    \/ PlanRun
    \/ RecordSkippedFeatures
    \/ LoadTokens
    \/ GenerateTokens
    \/ DrawBatch
    \/ DrawsExhausted
    \/ CatTokens
    \/ SaveTokens
    \/ CheckDuplicateRows
    \/ AddPrefixSuffix
    \/ EnterLoop
    \/ SkipBeforeStart
    \/ SkipAfterEnd
    \/ SkipExisting
    \/ StartBatch
    \/ ExtractReturn
    \/ ExtractRaise
    \/ ConvertReturn
    \/ ConvertRaise
    \/ WriteArtifact
    \/ Finish
    \/ Kill

SpecRun == RunInit /\ [][RunNext]_vars

\* ------------------------------------------------- runs side by side

\* Everything but procs.
nonprocs == <<plancfg, loopvars, pc, tokcfg, tokstate, tokens_file, pfxcfg,
              augmented, vocvars, ctorvars>>

\* A process at the call of run(), on a directory as it sees it.
proc0(dir) ==
    [pc |-> "start", feature_batch_count |-> 0, log |-> <<>>, files |-> dir,
     reports |-> <<>>, session |-> "none"]

\* An existence test that never finds the file.
proc_isfile_never(st, i) == FALSE

\* os.path.isfile(output_file) on the directory a process sees.
proc_isfile(st, i) == st.files[i][1] # "absent"

wandb_log_unconditional(reports, w, entry) == Append(reports, entry)

\* if self.cfg.use_wandb: wandb.log({"batch": feature_batch_count}, ...);
\* an entry is the ordinal and the state of its artifact at that moment.
wandb_log(reports, w, entry) == IF w THEN Append(reports, entry) ELSE reports

\* One step of run() for a process with use_wandb = w, its blocking
\* collaborator call (if it is in one) ending as o says: "return" or "raise".
run_step(st, w, o) ==
    LET i == st.feature_batch_count
    IN  CASE st.pc = "start" ->
                 [st EXCEPT !.session = IF w THEN "open" ELSE @,
                            !.pc = IF start_batch >= Len(feature_idx)
                                   THEN "exited" ELSE "loop"]
          [] st.pc = "loop" ->
                 IF i >= Len(feature_idx)
                 THEN [st EXCEPT !.session = IF w THEN "finished" ELSE @,
                                 !.pc = "done"]
                 ELSE IF BeforeStart(i) \/ AfterEnd(i)
                 THEN [st EXCEPT !.feature_batch_count = i + 1]
                 ELSE IF proc_isfile(st, i)
                 THEN [st EXCEPT !.log = Append(@, <<"skip", i>>),
                                 !.feature_batch_count = i + 1]
                 ELSE [st EXCEPT !.log = Append(@, <<"extract", i>>),
                                 !.pc = "extracting"]
          [] st.pc = "extracting" ->
                 [st EXCEPT !.pc = IF o = "raise" THEN "failed" ELSE "converting"]
          [] st.pc = "converting" ->
                 IF o = "raise"
                 THEN [st EXCEPT !.pc = "failed"]
                 ELSE [st EXCEPT !.files[i] = Opened(@),
                                 !.log = Append(@, <<"open", i>>),
                                 !.pc = "writing"]
          [] st.pc = "writing" ->
                 [st EXCEPT !.files[i] = <<"full", @[2]>>,
                            !.log = Append(@, <<"write", i>>),
                            !.pc = "reporting"]
          [] st.pc = "reporting" ->
                 [st EXCEPT !.reports = wandb_log(@, w, <<i, st.files[i][1]>>),
                            !.feature_batch_count = i + 1,
                            !.pc = "loop"]
          [] OTHER -> st

\* Both runs take their next step, every collaborator call returning.
BothReturn ==
    /\ pc = "side_by_side"
    /\ procs' = [w \in BOOLEAN |-> run_step(procs[w], w, "return")]
    /\ procs' # procs
    /\ UNCHANGED nonprocs

\* The collaborator call the runs are in (extraction or serialization) raises
\* in both.
BothRaise ==
    /\ pc = "side_by_side"
    /\ procs[FALSE].pc \in {"extracting", "converting"}
    /\ procs' = [w \in BOOLEAN |-> run_step(procs[w], w, "raise")]
    /\ UNCHANGED nonprocs

\* Two runs of one plan on two copies of one directory, with use_wandb on in
\* one and off in the other.
WandbInit ==
    /\ d_sae \in 1 .. MaxFeatures
    /\ n_features_at_a_time \in 1 .. MaxFeatures
    /\ start_batch \in 0 .. MaxFeatures
    /\ end_batch \in {None} \cup Ordinals
    /\ pc = "side_by_side"
    /\ run = 0
    /\ prev = NoPrev
    /\ feature_idx = get_feature_batches(d_sae, n_features_at_a_time)
    /\ feature_batch_count = 0
    /\ log = <<>>
    /\ files0 \in [Ordinals -> {Absent, <<"full", 1>>}]
    /\ files = files0
    /\ TokIdle
    /\ PfxIdle
    /\ VocIdle
    /\ CtorIdle
    /\ procs = [w \in BOOLEAN |-> proc0(files0)]

WandbNext ==
    \/ BothReturn
    \/ BothRaise

SpecWandb == WandbInit /\ [][WandbNext]_vars

\* ------------------------------------- two processes on one directory

\* The processes started on the directory.
Procs == 1 .. 2

\* The state after a step of process p on the shared directory, its blocking
\* call ending as o says.
proc_step(p, o) == run_step([procs[p] EXCEPT !.files = files], FALSE, o)

\* Process p takes its next step, a collaborator call returning.
ProcReturn(p) ==
    /\ pc = "concurrent"
    /\ LET st == proc_step(p, "return")
       IN  /\ st.pc # procs[p].pc \/ st.feature_batch_count # procs[p].feature_batch_count
           /\ procs' = [procs EXCEPT ![p] = st]
           /\ files' = st.files
    /\ UNCHANGED <<plancfg, start_batch, end_batch, run, prev, feature_idx,
                   feature_batch_count, log, files0, pc, tokcfg, tokstate,
                   tokens_file, pfxcfg, augmented, vocvars, ctorvars>>

\* The extraction or serialization process p is in raises.
ProcRaise(p) ==
    /\ pc = "concurrent"
    /\ procs[p].pc \in {"extracting", "converting"}
    /\ procs' = [procs EXCEPT ![p] = proc_step(p, "raise")]
    /\ UNCHANGED nonprocs

\* Two run() processes started on the same plan and directory.
RaceInit ==
    /\ d_sae \in 1 .. 2
    /\ n_features_at_a_time = 1
    /\ start_batch = 0
    /\ end_batch = None
    /\ pc = "concurrent"
    /\ run = 0
    /\ prev = NoPrev
    /\ feature_idx = get_feature_batches(d_sae, n_features_at_a_time)
    /\ feature_batch_count = 0
    /\ log = <<>>
    /\ files0 \in {[i \in Ordinals |-> Absent],
                   [i \in Ordinals |-> IF i = 0 THEN <<"full", 1>> ELSE Absent]}
    /\ files = files0
    /\ TokIdle
    /\ PfxIdle
    /\ VocIdle
    /\ CtorIdle
    /\ procs = [p \in Procs |-> proc0(files0)]

RaceNext ==
    \/ \E p \in Procs : ProcReturn(p)
    \/ \E p \in Procs : ProcRaise(p)

SpecRace == RaceInit /\ [][RaceNext]_vars

\* ------------------------------------------- re-invocation after failure

\* run() is invoked once and never again.
Reinvoke_FirstOnly ==
    /\ pc = "idle"
    /\ run' = run + 1
    /\ prev' = [status |-> pc, at |-> 0, same_bounds |-> FALSE]
    /\ feature_idx' = get_feature_batches(d_sae, n_features_at_a_time)
    /\ pc' = IF start_batch >= Len(feature_idx') THEN "exited" ELSE "loop"
    /\ feature_batch_count' = 0
    /\ log' = <<>>
    /\ files0' = files
    /\ UNCHANGED <<cfgvars, start_batch, end_batch, files>>

\* run() is invoked on the directory, the first time or again after a run
\* that failed, with the same configuration: run() up to the head of the loop.
Reinvoke ==
    /\ pc \in {"idle", "failed"}
    /\ run' = run + 1
    /\ prev' = [status |-> pc,
                at |-> IF pc = "failed" THEN feature_batch_count ELSE 0,
                same_bounds |-> run > 0]
    /\ feature_idx' = get_feature_batches(d_sae, n_features_at_a_time)
    /\ pc' = IF start_batch >= Len(feature_idx') THEN "exited" ELSE "loop"
    /\ feature_batch_count' = 0
    /\ log' = <<>>
    /\ files0' = files
    /\ UNCHANGED <<cfgvars, start_batch, end_batch, files>>

\* SaeVisRunner(...).run(...) raises; the collaborators fail fewer than
\* MaxRuns times in all.
ExtractFails ==
    /\ run < MaxRuns
    /\ ExtractRaise

\* NeuronpediaConverter.convert_to_np_json raises, within the same budget.
ConvertFails ==
    /\ run < MaxRuns
    /\ ConvertRaise

\* A directory as earlier processes may have left it: nothing, a complete
\* first artifact, or an unfinished first and a complete second one.
RestartDirs ==
    {[i \in Ordinals |-> Absent],
     [i \in Ordinals |-> IF i = 0 THEN <<"full", 1>> ELSE Absent],
     [i \in Ordinals |-> IF i = 0 THEN <<"partial", 1>>
                         ELSE IF i = 1 THEN <<"full", 1>> ELSE Absent]}

\* Plans of one and two batches, with and without bounds that leave batches
\* out.
RestartInit ==
    /\ d_sae \in 2 .. 4
    /\ n_features_at_a_time = 2
    /\ start_batch \in 0 .. 1
    /\ end_batch \in {None, 0, 1}
    /\ pc = "idle"
    /\ run = 0
    /\ prev = NoPrev
    /\ feature_idx = <<>>
    /\ feature_batch_count = 0
    /\ log = <<>>
    /\ files \in RestartDirs
    /\ files0 = files
    /\ AuxIdle

RestartNext ==
    \/ Reinvoke
    \/ SkipBeforeStart
    \/ SkipAfterEnd
    \/ SkipExisting
    \/ StartBatch
    \/ ExtractReturn
    \/ ExtractFails
    \/ ConvertReturn
    \/ ConvertFails
    \/ WriteArtifact
    \/ Finish

\* Every process goes on running until it ends, and a run that failed is
\* followed by a re-invocation.
SpecRestart == RestartInit /\ [][RestartNext]_vars /\ WF_vars(RestartNext)

\* ------------------------------------------------------------ properties

RECURSIVE Flatten(_)
\* The concatenation of the groups of a plan, in plan order.
Flatten(groups) ==
    IF Len(groups) = 0 THEN <<>>
    ELSE Flatten(SubSeq(groups, 1, Len(groups) - 1)) \o groups[Len(groups)]

\* Ordinal i is inside the inclusive bounds [start_batch, end_batch].
InRange(i) == i >= start_batch /\ (end_batch = None \/ i <= end_batch)

\* The ordinals of the plan.
PlanOrdinals == 0 .. (Len(feature_idx) - 1)

\* Positions of the log holding an event of the given kind.
Events(kind) == {k \in 1 .. Len(log) : log[k][1] = kind}

\* Ordinals the extraction collaborator was called for in this invocation.
Extracted == {log[k][2] : k \in Events("extract")}

\* This step calls the extraction collaborator for ordinal i.
ExtractInvoked(i) ==
    /\ Len(log') = Len(log) + 1
    /\ log'[Len(log')] = <<"extract", i>>

\* C1: a run that follows a normally completed run with the same start/end
\* bounds on the same plan and directory calls extraction for no batch and
\* leaves every batch-<i>.json as it found it.
C1_IdempotentResumption ==
    (prev.status = "done" /\ prev.same_bounds)
        => (Extracted = {} /\ files = files0)

C1_Witness ==
    /\ prev.status = "done" /\ prev.same_bounds
    /\ pc = "done"
    /\ Events("skip") # {}

\* C2: across any sequence of runs, once batch-<i>.json has been written in
\* full, no step calls extraction for ordinal i and no step changes the file.
C2_AtMostOnce ==
    [][\A i \in Ordinals :
          files[i][1] = "full" => (files'[i] = files[i] /\ ~ExtractInvoked(i))]_vars

C2_Witness ==
    /\ prev.status = "failed"
    /\ pc = "done"
    /\ \E i, j \in Ordinals :
          /\ files0[i][1] = "full" /\ files[i] = files0[i]
          /\ \E k \in Events("skip") : log[k][2] = i
          /\ \E k \in Events("write") : log[k][2] = j

\* C3: the start/end bounds are inclusive: a run neither extracts, skips as
\* existing, nor writes any ordinal below start_batch or above end_batch, and a
\* run that returns has extracted exactly the in-range ordinals of the plan
\* that had no artifact (with start_batch = end_batch = 1 and three batches,
\* only ordinal 1).
C3_StartEndBounds ==
    /\ \A k \in 1 .. Len(log) : InRange(log[k][2])
    /\ \A i \in Ordinals : ~InRange(i) => files[i] = files0[i]
    /\ pc = "done" =>
          Extracted = {i \in PlanOrdinals : InRange(i) /\ files0[i] = Absent}

C3_Witness ==
    /\ pc = "done"
    /\ start_batch = 1 /\ end_batch = 1
    /\ Len(feature_idx) = 3
    /\ \A i \in Ordinals : files0[i] = Absent
    /\ Extracted = {1}
    /\ files[0] = Absent /\ files[2] = Absent

\* C4: when an in-range batch is reached and its file exists, the next step
\* changes no file, calls neither extraction nor the serializer, and leaves the
\* run in the loop at the next batch.
C4_SkipLeavesUntouched ==
    [][(pc = "loop" /\ feature_batch_count \in PlanOrdinals
            /\ InRange(feature_batch_count) /\ files[feature_batch_count] # Absent)
          => /\ files' = files
             /\ log' = Append(log, <<"skip", feature_batch_count>>)
             /\ pc' = "loop"
             /\ feature_batch_count' = feature_batch_count + 1]_vars

C4_Witness ==
    \E i, j \in Ordinals :
        /\ i < j
        /\ files[i][1] = "partial"
        /\ \E k \in Events("skip") : log[k][2] = i
        /\ \E k \in Events("extract") : log[k][2] = j

\* C5: a run that failed in extraction or serialization of batch i called
\* extraction for i once, did nothing for any later ordinal and left no file
\* batch-<i>.json; the next run, reaching i inside its bounds, finds no file
\* there (and so runs the batch again).
C5_FailureLeavesNoMarker ==
    /\ pc = "failed" =>
          /\ files[feature_batch_count] = Absent
          /\ \A k \in 1 .. Len(log) : log[k][2] <= feature_batch_count
          /\ Cardinality({k \in Events("extract") : log[k][2] = feature_batch_count}) = 1
          /\ log[Len(log)] = <<"extract", feature_batch_count>>
    /\ (prev.status = "failed" /\ pc = "loop" /\ feature_batch_count = prev.at
            /\ InRange(feature_batch_count))
          => files[feature_batch_count] = Absent

C5_Witness ==
    /\ prev.status = "failed"
    /\ pc = "extracting"
    /\ feature_batch_count = prev.at
    /\ prev.at > 0
    /\ files0[0][1] = "full"

\* C6: within a run the events are in ascending ordinal, strictly for events
\* of the same kind (so no batch is extracted twice); a batch's extraction
\* starts only after the write of every batch extracted before it; at most one
\* batch is extracted and not yet written.
C6_StrictPlanOrder ==
    /\ \A k1, k2 \in 1 .. Len(log) :
          k1 < k2 => /\ log[k1][2] <= log[k2][2]
                     /\ log[k1][1] = log[k2][1] => log[k1][2] < log[k2][2]
    /\ \A k1, k2 \in Events("extract") :
          k1 < k2 => \E k \in Events("write") :
                        k1 < k /\ k < k2 /\ log[k][2] = log[k1][2]
    /\ Cardinality(Events("extract")) - Cardinality(Events("write")) \in {0, 1}

C6_Witness ==
    /\ pc = "done"
    /\ Cardinality(Extracted) >= 2
    /\ Events("skip") # {}

\* C7: when run() returns, every ordinal of the plan inside the bounds has a
\* file, and every file the run created or changed is at such an ordinal.
C7_OneArtifactPerBatch ==
    pc = "done" =>
        /\ \A i \in PlanOrdinals : InRange(i) => files[i] # Absent
        /\ \A i \in Ordinals :
              files[i] # files0[i] => (i \in PlanOrdinals /\ InRange(i))

C7_Witness ==
    /\ pc = "done"
    /\ start_batch > 0
    /\ end_batch # None /\ end_batch < Len(feature_idx) - 1
    /\ files[start_batch] # files0[start_batch]
    /\ files[end_batch] # files0[end_batch]

\* C8: a file left unfinished by a killed process is never changed and its
\* batch is never extracted by any later step (the existence test takes it for
\* complete); a run returns normally with such a file inside its bounds.
C8_PartialArtifactStays ==
    [][\A i \in Ordinals :
          (files[i][1] = "partial" /\ ~(pc = "writing" /\ feature_batch_count = i))
              => (files'[i] = files[i] /\ ~ExtractInvoked(i))]_vars

C8_Witness ==
    /\ pc = "done"
    /\ prev.status = "killed"
    /\ \E i \in PlanOrdinals :
          /\ InRange(i)
          /\ files[i][1] = "partial"
          /\ \E k \in Events("skip") : log[k][2] = i

\* C9: the groups of the plan, concatenated in plan order, are exactly
\* 0, 1, ..., n_features - 1.
C9_PartitionCompleteness ==
    pc = "planned" => Flatten(feature_idx) = [i \in 1 .. d_sae |-> i - 1]

C9_Witness ==
    /\ pc = "planned"
    /\ Len(feature_idx) >= 3
    /\ d_sae % Len(feature_idx) # 0

HasDuplicateRows(corpus) ==
    \E i, j \in 1 .. Len(corpus) : i < j /\ corpus[i] = corpus[j]

\* C11: the corpus generate_tokens returns holds no two sequences that are
\* equal at every position, whatever the source repeats and with or without
\* shuffling.
C11_DedupInvariant ==
    pc = "generated" => ~HasDuplicateRows(tokens)

C11_Witness ==
    /\ pc = "generated"
    /\ shuffle_tokens
    /\ Len(tokens) >= 2
    /\ HasDuplicateRows(SubSeq(source, 1, draws * store_batch_size))

\* C12 as stated: generate_tokens either fails or returns exactly
\* n_prompts_total sequences, never fewer.
C12_ExactSizeOrFailure ==
    pc = "generated" => Len(tokens) = n_prompts_total

\* C13 as stated: the loop of draws ends only once n_prompts_total unique
\* sequences are kept; with 8 prompts, draws of 4 and the scenario source, at
\* least 3 batches are drawn and the corpus has 8 unique sequences.
C13_DrawsUntilTarget ==
    /\ pc \in {"cat", "generated"} => Len(all_tokens_list) >= n_prompts_total
    /\ (pc = "generated" /\ n_prompts_total = 8 /\ store_batch_size = 4
            /\ source = ScenarioSource)
          => (draws >= 3 /\ Len(tokens) = 8 /\ ~HasDuplicateRows(tokens))

\* A prefix or a suffix is configured (not None).
Configured == ~IsNone(prefix_tokens) \/ ~IsNone(suffix_tokens)

\* C14 as stated: with keep_length > 0 the call returns, and every returned
\* sequence is as long as its input (prefix only, suffix only or both, with
\* or without a leading BOS).
C14_LengthPreserved ==
    (pc \in {"augmented", "config_error", "assert_error"} /\ keep_length(tokens) > 0)
        => /\ pc = "augmented"
           /\ Len(augmented) = Len(tokens)
           /\ \A r \in 1 .. Len(tokens) : Len(augmented[r]) = Len(tokens[r])

\* The ids the raw tokenizer table has an entry for.
RawIds == {vocab[k][2] : k \in 1 .. Len(vocab)}

\* C18 as stated: the table get_vocab_dict returns has exactly the keys
\* 0 .. d_vocab - 1, and every id of that range without a raw entry maps to
\* the out-of-range sentinel, ids in gaps below the number of raw entries
\* included.
C18_DenseVocabulary ==
    pc = "vocab_done" =>
        /\ DOMAIN vocab_dict = 0 .. (d_vocab - 1)
        /\ \A i \in (0 .. (d_vocab - 1)) \ RawIds :
              i \in DOMAIN vocab_dict /\ vocab_dict[i] = OUT_OF_RANGE_TOKEN

\* Length of a configured prefix or suffix, 0 when it is None.
FixLen(o) == IF o = {} THEN 0 ELSE Len(CHOOSE l \in o : TRUE)

\* What is left of a sequence of the corpus once prefix and suffix have their
\* room.
Room == Len(tokens[1]) - FixLen(prefix_tokens) - FixLen(suffix_tokens)

\* No batch has been extracted and no batch artifact touched by this process.
NoBatchWork == log = <<>> /\ files = files0

\* C15: when a prefix or suffix is configured and the sequence length minus
\* their lengths is <= 0, the call of add_prefix_suffix_to_tokens ends in the
\* configuration error, the run stops there, and no batch has been extracted
\* and no batch artifact written.
C15_OverlongRejected ==
    [][/\ (pc = "augment" /\ Configured /\ Room <= 0)
            => (pc' = "config_error" /\ NoBatchWork')
       /\ pc # "config_error"]_vars

C15_Witness ==
    /\ pc = "config_error"
    /\ Configured
    /\ Room = 0
    /\ NoBatchWork

\* The family flags are in conflict.
FlagsInConflict ==
    \/ use_transcoder /\ use_skip_transcoder
    \/ use_transcoder /\ use_clt
    \/ use_skip_transcoder /\ use_clt
    \/ use_clt /\ clt_layer_idx = None

\* C16: with more than one family flag set, or use_clt without clt_layer_idx,
\* construction raises with no encoder or model loaded and with the output
\* directory and every file as they were, and nothing follows: run() is not
\* reached.
C16_FlagConflictRejected ==
    [][/\ (pc = "construct" /\ FlagsInConflict)
            => /\ pc' = "flag_error"
               /\ loaded' = {}
               /\ written' = {}
               /\ UNCHANGED <<created, tokens_file, files>>
       /\ pc # "flag_error"]_vars

C16_Witness ==
    /\ pc = "flag_error"
    /\ use_transcoder /\ use_skip_transcoder /\ ~use_clt
    /\ loaded = {}
    /\ created = {}

\* C17 as stated: when the prefix/suffix configuration error is raised, no
\* run-settings file, skipped-index file or corpus has been written and no
\* batch has been drawn from the token source.
C17_RaisedAtConstruction ==
    pc = "config_error" => (written = {} /\ draws = 0)

\* C17, amended: the prefix/suffix configuration error is raised inside run(),
\* after run_settings.json and skipped_indexes.json have been written and the
\* corpus has been loaded from its file or drawn from the source and
\* persisted, and before any batch is extracted or batch artifact written.
C17_RaisedInsideRun ==
    pc = "config_error"
        => /\ {"run_settings.json", "skipped_indexes.json"} \subseteq written
           /\ {"run_settings.json", "skipped_indexes.json"} \subseteq created
           /\ loaded = {"sae", "model", "activations_store"}
           /\ tokens_file = {tokens}
           /\ ("tokens.pt" \in written) <=> (draws > 0)
           /\ NoBatchWork

C17_Witness ==
    /\ pc = "config_error"
    /\ "tokens.pt" \in written
    /\ draws > 0
    /\ "run_settings.json" \in written

\* C19: a corpus file that exists is loaded by get_tokens, is never rewritten,
\* and the token source is not drawn from while it exists (so never in a run
\* that found it); and whenever a batch is extracted the corpus in use is the
\* content of the file, so a generated corpus is persisted before the first
\* extraction.
C19_CorpusReuse ==
    [][/\ tokens_file # {}
            => /\ tokens_file' = tokens_file
               /\ draws' = draws
               /\ pc = "get_tokens" => tokens' \in tokens_file
       /\ pc' = "extracting" => tokens_file' = {tokens'}]_vars

C19_Witness ==
    /\ pc = "extracting"
    /\ draws = 0
    /\ "tokens.pt" \notin written
    /\ tokens_file = {tokens}

\* C20: a loaded corpus holding the same sequence twice is kept as it is up to
\* the duplicate check, the check fails the run, nothing follows, and no batch
\* has been extracted and no batch artifact written.
C20_LoadedDuplicatesFatal ==
    [][/\ (pc = "get_tokens" /\ tokens_file # {})
            => tokens' \in tokens_file
       /\ (pc = "check_dup" /\ HasDuplicateRows(tokens))
            => /\ pc' = "dup_error"
               /\ tokens' = tokens
               /\ tokens_file' = tokens_file
               /\ NoBatchWork'
       /\ pc # "dup_error"]_vars

C20_Witness ==
    /\ pc = "dup_error"
    /\ draws = 0
    /\ tokens_file = {tokens}
    /\ HasDuplicateRows(tokens)
    /\ NoBatchWork

\* The normalized strings of the raw entries with the given id.
NormalizedEntries(id) ==
    {ReplaceAnomalies(vocab[k][1], 1) : k \in {n \in 1 .. Len(vocab) : vocab[n][2] = id}}

\* C27 as stated: every id with an entry in the raw tokenizer table maps, in
\* the table get_vocab_dict returns, to the normalized string of an entry of
\* that id and not to the out-of-range sentinel.
C27_EntriesNeverReplaced ==
    pc = "vocab_done" =>
        \A id \in RawIds :
            /\ id \in DOMAIN vocab_dict
            /\ vocab_dict[id] \in NormalizedEntries(id)
            /\ vocab_dict[id] # OUT_OF_RANGE_TOKEN

\* C28: every group of the plan is non-empty and has at most
\* n_features_at_a_time indices, and any two groups differ in size by at most
\* one.
C28_GroupSizeBounded ==
    pc = "planned" =>
        /\ \A k \in 1 .. Len(feature_idx) :
              /\ Len(feature_idx[k]) >= 1
              /\ Len(feature_idx[k]) <= n_features_at_a_time
        /\ \A j, k \in 1 .. Len(feature_idx) :
              Len(feature_idx[j]) - Len(feature_idx[k]) <= 1

C28_Witness ==
    /\ pc = "planned"
    /\ Len(feature_idx) >= 3
    /\ \E j, k \in 1 .. Len(feature_idx) :
          /\ Len(feature_idx[j]) = n_features_at_a_time
          /\ Len(feature_idx[k]) = n_features_at_a_time - 1

RECURSIVE FirstOccurrences(_)
\* A sequence with every element after its first occurrence removed.
FirstOccurrences(seq) ==
    IF Len(seq) = 0 THEN <<>>
    ELSE LET init == FirstOccurrences(SubSeq(seq, 1, Len(seq) - 1))
             last == seq[Len(seq)]
         IN  IF \E j \in 1 .. (Len(seq) - 1) : seq[j] = last
             THEN init
             ELSE Append(init, last)

\* The sequences of the batches drawn so far, in draw order.
Drawn == SubSeq(source, 1, draws * store_batch_size)

\* C24: with shuffle_tokens off, the corpus generate_tokens returns is the
\* first n_prompts_total elements of the drawn batches concatenated in draw
\* order with every sequence after its first occurrence removed.
C24_DrawOrderPreserved ==
    (pc = "generated" /\ ~shuffle_tokens) =>
        LET kept == FirstOccurrences(Drawn)
        IN  tokens = SubSeq(kept, 1, IF Len(kept) < n_prompts_total
                                     THEN Len(kept) ELSE n_prompts_total)

C24_Witness ==
    /\ pc = "generated"
    /\ ~shuffle_tokens
    /\ draws >= 2
    /\ Len(tokens) >= 2
    /\ HasDuplicateRows(Drawn)
    /\ tokens[1] # tokens[2]

\* The last k elements of a row (none for k <= 0).
Trailing(row, k) == SubSeq(row, Len(row) - k + 1, Len(row))

\* The configured prefix or suffix as a list, the empty list when it is None.
FixList(o) == IF o = {} THEN <<>> ELSE CHOOSE l \in o : TRUE

\* C23 as stated: when a prefix and/or suffix is configured and keep_length
\* is > 0, every returned sequence is the input's leading marker token (when
\* the corpus uses one), then the prefix, then the trailing keep_length tokens
\* of the input (one fewer with a marker), then the suffix.
C23_AugmentedLayout ==
    (pc = "augmented" /\ Configured /\ Room > 0) =>
        /\ Len(augmented) = Len(tokens)
        /\ \A r \in 1 .. Len(tokens) :
              augmented[r] =
                  (IF prepend_bos THEN <<tokens[r][1]>> ELSE <<>>)
                      \o FixList(prefix_tokens)
                      \o Trailing(tokens[r], Room - (IF prepend_bos THEN 1 ELSE 0))
                      \o FixList(suffix_tokens)

\* C26 as stated: the corpus add_prefix_suffix_to_tokens returned, which every
\* batch's extraction call is given, holds no two identical sequences whenever
\* the corpus passed the duplicate check of get_tokens.
C26_AugmentedDuplicateFree ==
    (pc \in {"augmented", "loop", "extracting"} /\ ~HasDuplicateRows(tokens))
        => ~HasDuplicateRows(augmented)

\* An event of a log is the write of an artifact.
IsWrite(event) == event[1] = "write"

\* The reports a run with telemetry owes for a log: one per artifact written,
\* in order, each with the artifact complete, the last write still without its
\* report while the run is between the write and the report.
ReportsOwed(st) ==
    LET writes == SelectSeq(st.log, IsWrite)
        n == Len(writes) - (IF st.pc = "reporting" THEN 1 ELSE 0)
    IN  [k \in 1 .. n |-> <<writes[k][2], "full">>]

HasEvent(p, kind, i) ==
    \E k \in 1 .. Len(procs[p].log) : procs[p].log[k] = <<kind, i>>

\* This step is process p calling extraction for ordinal i.
ProcExtractsNow(p, i) ==
    /\ Len(procs'[p].log) = Len(procs[p].log) + 1
    /\ procs'[p].log[Len(procs'[p].log)] = <<"extract", i>>

\* C22: with two processes interleaved on one directory, a process calls
\* extraction for an ordinal only while batch-<i>.json does not exist, so the
\* other process can have called extraction for it too only if it has not yet
\* opened the file: the window between the existence check and the write.
\* The witness is the race itself: both passed the check, both extracted and
\* both wrote batch-<i>.json.
C22_CheckThenWriteWindow ==
    [][\A p \in Procs, i \in Ordinals :
          ProcExtractsNow(p, i) =>
              /\ files[i][1] = "absent"
              /\ \A q \in Procs \ {p} : ~HasEvent(q, "open", i)]_vars

C22_Witness ==
    /\ pc = "concurrent"
    /\ \E i \in Ordinals :
          /\ \A p \in Procs :
                HasEvent(p, "extract", i) /\ HasEvent(p, "write", i)
          /\ files[i] = <<"full", 2>>

\* The ordinals that have an artifact file.
WithArtifact == {i \in Ordinals : files[i][1] # "absent"}

\* A run has ended normally with an artifact for every in-range ordinal of
\* the plan.
CompletedInRange ==
    /\ pc \in {"done", "exited"}
    /\ \A i \in PlanOrdinals : InRange(i) => i \in WithArtifact

\* C25: when every failed run is re-invoked with the same configuration, no
\* process is killed and the collaborators fail finitely often, eventually a
\* run ends normally with an artifact for every in-range ordinal, and no step
\* (so no run) lowers the number of ordinals with an artifact.
C25_RestartCompletes ==
    /\ <>CompletedInRange
    /\ [][Cardinality(WithArtifact') >= Cardinality(WithArtifact)]_vars

C25_Witness ==
    /\ CompletedInRange
    /\ pc = "done"
    /\ run = MaxRuns
    /\ prev.status = "failed"
    /\ Cardinality(WithArtifact) >= 2
    /\ \E k \in 1 .. Len(log) : log[k][1] = "write"

=============================================================================
